---- MODULE Spec2Model ----
(***************************************************************************)
(* RedisService of the relay server (servers/relay/src/redis.ts): the      *)
(* message cache, the legacy and notification lists, the pending request   *)
(* store and the stream publisher / listener, over a model of the Redis    *)
(* commands they issue.                                                    *)
(*                                                                         *)
(* Strings are sequences of one-character strings so that concatenation,   *)
(* split(":") and MATCH patterns are computed as the code computes them.   *)
(* Every async method is one action per backend command it awaits: the     *)
(* command is executed when it is issued (commands of one connection are   *)
(* executed in the order they are issued), and the code after the await    *)
(* runs in the method's next action, so other callers and the clock        *)
(* interleave exactly at the awaits.                                       *)
(***************************************************************************)
EXTENDS Integers, Sequences, FiniteSets, Bags, TLC

\* ------------------------------------------------------------------ bounds
MaxTime == 2        \* the clock runs 0..MaxTime
MaxSubs == 2        \* subscribe events raised in one behaviour
MaxPub == 2         \* publish invocations in one behaviour
MaxCalls == 3       \* invocations of set* and delete* methods in one behaviour (get* are not counted)

\* ------------------------------------------------------------------ inputs
Topics == {<<"t">>, <<"u">>}
\* message bodies: plain ones and ones that contain the ':' separator
Bodies == {<<"a">>, <<"a", ":", "b">>}
\* concurrently outstanding invocations
Callers == {1, 2}
\* ttl arguments, seconds
TTLs == {1, 2}

\* request ids of pending requests
Ids == {1, 2}
\* payloads of legacy socket messages and notifications
Payloads == {<<"a">>, <<"b">>, <<"c">>}
\* LegacySocketMessage / Notification objects
Objects == [topic : Topics, payload : Payloads]

\* return values that are not strings
Void == <<"void">>
Undefined == <<"undefined">>
\* the reply of GET for an absent key
Nil == <<"null">>
NoExpiry == -1

\* timestamp and sequence parts of Redis stream ids: one and two decimal digits
IdParts == {0, 1, 2, 9, 10}

\* SIX_HOURS of @walletconnect/time, seconds
SIX_HOURS == 21600
\* server.config.maxTTL, seconds (scaled to the model's clock)
maxTTL == 2

VARIABLES
  now,          \* backend clock, seconds
  msgSet,       \* message:{topic}  -> set of members "hash:body"
  msgExp,       \* message:{topic}  -> expiry time or NoExpiry
  calls,        \* caller -> the invocation it runs (method, position, locals, result)
  nCalls,       \* invocations started so far
  last,         \* what the step just taken returned to its caller, if it returned
  legacy,       \* legacy:{topic} -> list of JSON texts, head first
  legacyExp,    \* legacy:{topic} -> expiry time or NoExpiry
  notification, \* notification:{topic} -> list of JSON texts, head first
  owed,         \* history: topic -> the legacy messages pushed and not yet deleted, in push order
  notified,     \* history: topic -> the notifications pushed, in push order
  pending,      \* pending:{id} -> stored string or Nil
  pendingExp,   \* pending:{id} -> expiry time or NoExpiry
  asked,        \* history: id -> <<topic, message>> of the setPendingRequest whose value is stored, or Nil
  connected,    \* connect() has resolved and the subscribe handler is registered
  stream,       \* topic -> the entries of the topic's stream, oldest first
  listeners,    \* the streamListener invocations, in the order they were started
                \* (history: issuedAt, the length of the stream when the read was issued)
  events,       \* the NETWORK_EVENTS.message events emitted (each with the listener and
                \* the entry it comes from, as history)
  nSubs,        \* subscribe events raised by the server so far
  compared,     \* the last isHigher call: its two ids (as pairs) and what it returned
  collide,      \* whether the digest in use maps two of the bodies to one hash
  adds          \* history: topic -> body -> sAdd commands since the member last left the set (0..2)

cacheVars == <<now, msgSet, msgExp, collide, adds>>
queueVars == <<legacy, legacyExp, notification, owed, notified>>
pendingVars == <<pending, pendingExp, asked>>
streamVars == <<connected, stream, listeners, events, nSubs>>
vars == <<now, msgSet, msgExp, calls, nCalls, last, collide, adds, compared,
          legacy, legacyExp, notification, owed, notified, pending, pendingExp, asked,
          connected, stream, listeners, events, nSubs>>

\* what the methods of one store leave alone
nonCache == <<queueVars, pendingVars, streamVars, compared>>
nonQueue == <<cacheVars, pendingVars, streamVars, compared>>
nonPending == <<msgSet, msgExp, adds, queueVars, streamVars, compared>>
nonStream == <<cacheVars, queueVars, pendingVars, calls, compared>>
nonIds == <<cacheVars, queueVars, pendingVars, streamVars, calls, nCalls, last>>

\* ------------------------------------------------------------ pure helpers

\* String.prototype.split(sep) for a one-character separator
RECURSIVE Split(_, _)
Split(s, sep) ==
  IF \E i \in 1..Len(s) : s[i] = sep
  THEN LET i == CHOOSE k \in 1..Len(s) : s[k] = sep /\ \A j \in 1..(k - 1) : s[j] # sep
       IN  <<SubSeq(s, 1, i - 1)>> \o Split(SubSeq(s, i + 1, Len(s)), sep)
  ELSE <<s>>

\* member.split(":")[1]
SplitSecond(member) ==
  LET parts == Split(member, ":")
  IN  IF Len(parts) >= 2 THEN parts[2] ELSE Undefined

\* sha256 of ./utils: a deterministic hex digest (no ':' in it). Two digests are
\* modelled: one that is collision free on Bodies and, when `collide` holds, one
\* that maps bodies with the same first character to the same hash.
HexOf(ch) == CASE ch = "a" -> "1" [] ch = "b" -> "2" [] ch = ":" -> "3" [] OTHER -> "0"
sha256(message) ==
  IF collide THEN <<HexOf(message[1])>>
  ELSE [i \in 1..Len(message) |-> HexOf(message[i])]

Hashes == {sha256(b) : b \in Bodies}

\* the hash part of a stored member "hash:body"
HashPart(member) == Split(member, ":")[1]

\* const val = `${hash}:${message}`
MemberVal(hash, message) == hash \o <<":">> \o message

\* MATCH `${hash}:*` of SSCAN: the member starts with hash followed by ':'
Match(member, hash) ==
  /\ Len(member) >= Len(hash) + 1
  /\ SubSeq(member, 1, Len(hash)) = hash
  /\ member[Len(hash) + 1] = ":"

\* ---------------------------------------------------------- Redis commands

\* SET instead of SADD: the new member replaces the set
SAddOverwrites(set, val) == {val}

\* SADD key val
SAdd(set, val) == set \cup {val}

\* DEL instead of SREM: the whole set goes
SRemAll(set, member) == {}

\* SREM key member
SRem(set, member) == set \ {member}

\* SET key val NX: a value already stored is kept
SetNX(old, val) == IF old = Nil THEN val ELSE old

\* SET key val: the value replaces what the key held
Set(old, val) == val

\* LPUSH key text: the text becomes the head of the list
LPush(list, text) == <<text>> \o list

\* LRANGE key 0 -1
LRange(list) == list

\* the list survives the read
DelKeeps(list) == list

\* DEL key of a list
Del(list) == <<>>

\* safeJsonStringify of an object: its JSON text
JsonStringify(obj) == <<"{">> \o obj.topic \o <<",">> \o obj.payload \o <<"}">>

\* JSON.parse accepts the text
IsJson(text) ==
  LET n == Len(text)
  IN  n >= 2 /\ text[1] = "{" /\ text[n] = "}" /\ Len(Split(SubSeq(text, 2, n - 1), ",")) = 2

\* safeJsonParse: the object of a well-formed text, the text itself (a string, here
\* a record of its own kind) otherwise
JsonParse(text) ==
  LET parts == Split(SubSeq(text, 2, Len(text) - 1), ",")
  IN  IF IsJson(text)
      THEN [topic |-> parts[1], payload |-> parts[2]]
      ELSE [text |-> text]

\* EXPIRE key ttl: sets the expiry of an existing key, does nothing to an absent one
Expire(exists, exp, ttl) == IF exists THEN now + ttl ELSE exp

\* a key whose expiry time has been reached no longer exists
Expired(exp, time) == exp # NoExpiry /\ exp <= time

\* ------------------------------------------------------------ RedisStreamID

\* the decimal digit of 0..9, and back
Digit(n) ==
  CASE n = 0 -> "0" [] n = 1 -> "1" [] n = 2 -> "2" [] n = 3 -> "3" [] n = 4 -> "4"
    [] n = 5 -> "5" [] n = 6 -> "6" [] n = 7 -> "7" [] n = 8 -> "8" [] OTHER -> "9"
DigitVal(ch) == CHOOSE n \in 0..9 : Digit(n) = ch

\* a number as Redis prints it in a stream id
RECURSIVE Decimal(_)
Decimal(n) == IF n < 10 THEN <<Digit(n)>> ELSE Decimal(n \div 10) \o <<Digit(n % 10)>>

\* the stream id "<timestamp>-<sequence>"
FormatId(timestamp, sequence) == Decimal(timestamp) \o <<"-">> \o Decimal(sequence)

\* encoding.utf8ToNumber: the number a string of decimal digits denotes
RECURSIVE utf8ToNumber(_)
utf8ToNumber(utf8) ==
  IF Len(utf8) = 1 THEN DigitVal(utf8[1])
  ELSE 10 * utf8ToNumber(SubSeq(utf8, 1, Len(utf8) - 1)) + DigitVal(utf8[Len(utf8)])

\* new RedisStreamID(value): the string with its two parts parsed
RedisStreamID(value) ==
  LET parts == Split(value, "-")
  IN  [value |-> value, timestamp |-> utf8ToNumber(parts[1]), sequence |-> utf8ToNumber(parts[2])]

\* the order of stream ids: by timestamp, then by sequence
isHigherOrdered(this, id) ==
  LET parts == Split(id.value, "-")
      sequence == utf8ToNumber(parts[2])
      timestamp == utf8ToNumber(parts[1])
  IN  this.timestamp > timestamp \/ (this.timestamp = timestamp /\ this.sequence > sequence)

\* RedisStreamID.isHigher
isHigher(this, id) ==
  LET parts == Split(id.value, "-")
      sequence == utf8ToNumber(parts[2])
      timestamp == utf8ToNumber(parts[1])
  IN  IF this.timestamp > timestamp THEN TRUE
      ELSE IF this.sequence > sequence THEN TRUE
      ELSE FALSE

\* before isHigher is called
NoComparison == [called |-> FALSE, a |-> <<0, 0>>, b |-> <<0, 0>>, higher |-> FALSE]

\* a.isHigher(b) is called for the ids a = (ta, sa) and b = (tb, sb)
IsHigher(ta, sa, tb, sb) ==
  /\ compared' = [called |-> TRUE, a |-> <<ta, sa>>, b |-> <<tb, sb>>,
                  higher |-> isHigher(RedisStreamID(FormatId(ta, sa)), RedisStreamID(FormatId(tb, sb)))]
  /\ UNCHANGED nonIds

\* ------------------------------------------------------------- invocations
NoCall ==
  [op |-> "none", pc |-> "idle", topic |-> <<>>, message |-> <<>>, hash |-> <<>>,
   ttl |-> 0, id |-> 0, scan |-> {}, result |-> <<>>, owed |-> <<>>, cmds |-> 0,
   raced |-> FALSE]
\* (history: raced, a command of another invocation changed the same key since;
\* owed, the legacy messages owed to the topic when lRange ran)

\* what the step just taken returned to a caller: the method, the value, and the
\* number of backend commands the method issued; NoReturn after a step that
\* returned nothing. (rejected: the promise rejected instead; history: failed, one
\* of the commands the call issued failed)
Returned(op, ret, cmds) ==
  [op |-> op, ret |-> ret, cmds |-> cmds, rejected |-> FALSE, failed |-> FALSE]
\* the step just taken ended a call with its promise rejected by a failed command
Threw(op, cmds) ==
  [op |-> op, ret |-> Void, cmds |-> cmds, rejected |-> TRUE, failed |-> TRUE]
NoReturn == Returned("none", Void, 0)

Free(c) == calls[c].pc = "idle"
Budget == nCalls < MaxCalls

\* a method is invoked and suspends at an await
Start(c, rec) ==
  /\ calls' = [calls EXCEPT ![c] = rec]
  /\ nCalls' = nCalls + 1
  /\ last' = NoReturn

\* a method that reads with one command and returns
StartReturn(c, ret) ==
  /\ calls' = calls
  /\ nCalls' = nCalls
  /\ last' = ret

Bump(n) == IF n < 2 THEN n + 1 ELSE 2

\* ------------------------------------------------------------ message cache

\* setMessage up to `await this.client.sAdd(key, val)`
SetMessage_sAdd(c, topic, message, ttl) ==
  /\ UNCHANGED nonCache
  /\ Free(c) /\ Budget
  /\ LET hash == sha256(message)
         val == MemberVal(hash, message)
     IN  /\ msgSet' = [msgSet EXCEPT ![topic] = SAdd(@, val)]
         /\ msgExp' = msgExp
         /\ adds' = [adds EXCEPT ![topic][message] = Bump(@)]
         /\ calls' = [d \in Callers |->
                        IF d = c
                        THEN [NoCall EXCEPT !.op = "setMessage", !.pc = "expire",
                                            !.topic = topic, !.message = message,
                                            !.hash = hash, !.ttl = ttl]
                        ELSE IF calls[d].op = "deleteMessage" /\ calls[d].topic = topic
                             THEN [calls[d] EXCEPT !.raced = TRUE]
                             ELSE calls[d]]
         /\ nCalls' = nCalls + 1
         /\ last' = NoReturn
  /\ UNCHANGED <<now, collide>>

\* setMessage from `await this.client.expire(key, ttl)` to its return
SetMessage_expire(c) ==
  /\ UNCHANGED nonCache
  /\ calls[c].op = "setMessage" /\ calls[c].pc = "expire"
  /\ LET topic == calls[c].topic
     IN  /\ msgExp' = [msgExp EXCEPT ![topic] = Expire(msgSet[topic] # {}, @, calls[c].ttl)]
         /\ last' = Returned("setMessage", Void, 2)
  /\ calls' = [calls EXCEPT ![c] = NoCall]
  /\ UNCHANGED <<now, msgSet, adds, nCalls, collide>>

\* getMessage: the first member the scan yields, split(":")[1] of it
GetMessage(c, topic, hash) ==
  /\ UNCHANGED nonCache
  /\ Free(c)
  /\ LET found == {m \in msgSet[topic] : Match(m, hash)}
     IN  \E r \in (IF found = {} THEN {Undefined} ELSE {SplitSecond(m) : m \in found}) :
           StartReturn(c, Returned("getMessage", r, 1))
  /\ UNCHANGED cacheVars

\* getMessages: split(":")[1] of every member, as the bag of the returned list
GetMessages(c, topic) ==
  /\ UNCHANGED nonCache
  /\ Free(c)
  /\ LET result == msgSet[topic]
         pieces == {SplitSecond(m) : m \in result}
         messages == [p \in pieces |-> Cardinality({m \in result : SplitSecond(m) = p})]
     IN  StartReturn(c, Returned("getMessages", messages, 1))
  /\ UNCHANGED cacheVars

\* deleteMessage up to the first reply of the scan; it returns if nothing matched
DeleteMessage_scan(c, topic, hash) ==
  /\ UNCHANGED nonCache
  /\ Free(c) /\ Budget
  /\ LET found == {m \in msgSet[topic] : Match(m, hash)}
     IN  IF found = {}
         THEN /\ calls' = calls
              /\ nCalls' = nCalls + 1
              /\ last' = Returned("deleteMessage", Void, 1)
         ELSE Start(c, [NoCall EXCEPT !.op = "deleteMessage", !.pc = "sRem", !.topic = topic,
                                      !.hash = hash, !.scan = found, !.cmds = 1])
  /\ UNCHANGED cacheVars

\* deleteMessage: one `await this.client.sRem(key, member)` of the loop, and the
\* return after the last one
DeleteMessage_sRem(c) ==
  /\ UNCHANGED nonCache
  /\ calls[c].op = "deleteMessage" /\ calls[c].pc = "sRem"
  /\ \E member \in calls[c].scan :
       LET topic == calls[c].topic
           left == SRem(msgSet[topic], member)
           rest == calls[c].scan \ {member}
       IN  /\ msgSet' = [msgSet EXCEPT ![topic] = left]
           \* an emptied set is removed together with its expiry
           /\ msgExp' = [msgExp EXCEPT ![topic] = IF left = {} THEN NoExpiry ELSE @]
           /\ adds' = [adds EXCEPT ![topic] =
                         [b \in Bodies |-> IF MemberVal(sha256(b), b) \in left THEN @[b] ELSE 0]]
           /\ calls' = [d \in Callers |->
                          IF d = c
                          THEN IF rest = {} THEN NoCall
                               ELSE [calls[c] EXCEPT !.scan = rest, !.cmds = @ + 1]
                          ELSE IF calls[d].op = "setMessage" /\ calls[d].topic = topic
                               THEN [calls[d] EXCEPT !.raced = TRUE]
                               ELSE calls[d]]
           /\ last' = IF rest = {} THEN Returned("deleteMessage", Void, calls[c].cmds + 1)
                      ELSE NoReturn
  /\ UNCHANGED <<now, nCalls, collide>>

\* --------------------------------------------------- legacy and notifications

\* setLegacyCached up to `await this.client.lPush(...)`
SetLegacyCached_lPush(c, message) ==
  /\ UNCHANGED nonQueue
  /\ Free(c) /\ Budget
  /\ LET topic == message.topic
     IN  /\ legacy' = [legacy EXCEPT ![topic] = LPush(@, JsonStringify(message))]
         /\ owed' = [owed EXCEPT ![topic] = Append(@, message)]
         /\ Start(c, [NoCall EXCEPT !.op = "setLegacyCached", !.pc = "expire", !.topic = topic])
  /\ UNCHANGED <<legacyExp, notification, notified>>

\* setLegacyCached from `await this.client.expire(..., SIX_HOURS)` to its return
SetLegacyCached_expire(c) ==
  /\ UNCHANGED nonQueue
  /\ calls[c].op = "setLegacyCached" /\ calls[c].pc = "expire"
  /\ LET topic == calls[c].topic
     IN  legacyExp' = [legacyExp EXCEPT ![topic] = Expire(legacy[topic] # <<>>, @, SIX_HOURS)]
  /\ calls' = [calls EXCEPT ![c] = NoCall]
  /\ last' = Returned("setLegacyCached", Void, 2)
  /\ UNCHANGED <<legacy, notification, owed, notified, nCalls>>

\* getLegacyCached up to `await this.client.lRange(..., 0, -1)`
GetLegacyCached_lRange(c, topic) ==
  /\ UNCHANGED nonQueue
  /\ Free(c)
  /\ calls' = [calls EXCEPT ![c] = [NoCall EXCEPT !.op = "getLegacyCached", !.pc = "del",
                                                  !.topic = topic,
                                                  !.result = LRange(legacy[topic]),
                                                  !.owed = owed[topic]]]
  /\ last' = NoReturn
  /\ UNCHANGED <<queueVars, nCalls>>

\* getLegacyCached after the await: the entries are parsed, del is issued (not
\* awaited; the connection executes it before any later command) and the list returned
GetLegacyCached_del(c) ==
  /\ UNCHANGED nonQueue
  /\ calls[c].op = "getLegacyCached" /\ calls[c].pc = "del"
  /\ LET topic == calls[c].topic
         result == calls[c].result
         messages == [i \in 1..Len(result) |-> JsonParse(result[i])]
     IN  /\ legacy' = [legacy EXCEPT ![topic] = Del(@)]
         /\ legacyExp' = [legacyExp EXCEPT ![topic] = IF Del(legacy[topic]) = <<>> THEN NoExpiry ELSE @]
         /\ owed' = [owed EXCEPT ![topic] = IF Del(legacy[topic]) = <<>> THEN <<>> ELSE @]
         /\ last' = Returned("getLegacyCached", messages, 2)
  /\ calls' = [calls EXCEPT ![c] = NoCall]
  /\ UNCHANGED <<notification, notified, nCalls>>

\* setNotification: lPush, no expiry
SetNotification(c, notif) ==
  /\ UNCHANGED nonQueue
  /\ Free(c) /\ Budget
  /\ LET topic == notif.topic
     IN  /\ notification' = [notification EXCEPT ![topic] = LPush(@, JsonStringify(notif))]
         /\ notified' = [notified EXCEPT ![topic] = Append(@, notif)]
  /\ calls' = calls
  /\ nCalls' = nCalls + 1
  /\ last' = Returned("setNotification", Void, 1)
  /\ UNCHANGED <<legacy, legacyExp, owed>>

\* a read that also removes the list, as getLegacyCached does
GetNotificationDrains(c, topic) ==
  /\ UNCHANGED nonQueue
  /\ Free(c)
  /\ notification' = [notification EXCEPT ![topic] = <<>>]
  /\ LET result == LRange(notification[topic])
     IN  StartReturn(c, Returned("getNotification",
                                 [i \in 1..Len(result) |-> JsonParse(result[i])], 1))
  /\ UNCHANGED <<legacy, legacyExp, owed, notified>>

\* getNotification: lRange, every entry parsed
GetNotification(c, topic) ==
  /\ UNCHANGED nonQueue
  /\ Free(c)
  /\ LET result == LRange(notification[topic])
         notifications == [i \in 1..Len(result) |-> JsonParse(result[i])]
     IN  StartReturn(c, Returned("getNotification", notifications, 1))
  /\ UNCHANGED queueVars

\* texts that are not JSON
Malformed == {<<"x">>, <<"{", "a">>}

\* an entry that is not JSON gets into legacy:{topic} (any other client of the
\* backend: the service reads whatever strings the list holds)
ForeignLPush_legacy(topic, text) ==
  /\ UNCHANGED nonQueue
  /\ Budget
  /\ legacy' = [legacy EXCEPT ![topic] = LPush(@, text)]
  /\ nCalls' = nCalls + 1
  /\ last' = NoReturn
  /\ UNCHANGED <<legacyExp, notification, owed, notified, calls>>

\* an entry that is not JSON gets into notification:{topic}
ForeignLPush_notification(topic, text) ==
  /\ UNCHANGED nonQueue
  /\ Budget
  /\ notification' = [notification EXCEPT ![topic] = LPush(@, text)]
  /\ nCalls' = nCalls + 1
  /\ last' = NoReturn
  /\ UNCHANGED <<legacy, legacyExp, owed, notified, calls>>

ForeignOps ==
  \/ \E t \in Topics, x \in Malformed : ForeignLPush_legacy(t, x)
  \/ \E t \in Topics, x \in Malformed : ForeignLPush_notification(t, x)

\* ---------------------------------------------------------- pending requests

\* SET key val: the value is replaced and the key has no expiry
SetPendingRequest_set(c, topic, id, message) ==
  /\ UNCHANGED <<nonPending, now, collide>>
  /\ Free(c) /\ Budget
  /\ LET hash == sha256(message)
         val == topic \o <<":">> \o hash
     IN  /\ pending' = [pending EXCEPT ![id] = Set(@, val)]
         /\ pendingExp' = [pendingExp EXCEPT ![id] = NoExpiry]
         /\ asked' = [asked EXCEPT ![id] = <<topic, message>>]
         /\ Start(c, [NoCall EXCEPT !.op = "setPendingRequest", !.pc = "expire",
                                    !.topic = topic, !.id = id, !.message = message])

\* setPendingRequest from `await this.client.expire(key, maxTTL)` to its return
SetPendingRequest_expire(c) ==
  /\ UNCHANGED <<nonPending, now, collide>>
  /\ calls[c].op = "setPendingRequest" /\ calls[c].pc = "expire"
  /\ LET id == calls[c].id
     IN  pendingExp' = [pendingExp EXCEPT ![id] = Expire(pending[id] # Nil, @, maxTTL)]
  /\ calls' = [calls EXCEPT ![c] = NoCall]
  /\ last' = Returned("setPendingRequest", Void, 2)
  /\ UNCHANGED <<pending, asked, nCalls>>

\* the stored string is returned with its first character missing
GetPendingRequestCut(c, id) ==
  /\ UNCHANGED <<nonPending, now, collide>>
  /\ Free(c)
  /\ LET data == pending[id]
     IN  StartReturn(c, Returned("getPendingRequest",
                                 IF data # Nil /\ data # <<>> THEN Tail(data) ELSE <<>>, 1))
  /\ UNCHANGED pendingVars

\* getPendingRequest: `return data ? data : ""`
GetPendingRequest(c, id) ==
  /\ UNCHANGED <<nonPending, now, collide>>
  /\ Free(c)
  /\ LET data == pending[id]
     IN  StartReturn(c, Returned("getPendingRequest",
                                 IF data # Nil /\ data # <<>> THEN data ELSE <<>>, 1))
  /\ UNCHANGED pendingVars

\* deletePendingRequest: DEL key, also of an absent key
DeletePendingRequest(c, id) ==
  /\ UNCHANGED <<nonPending, now, collide>>
  /\ Free(c) /\ Budget
  /\ pending' = [pending EXCEPT ![id] = Nil]
  /\ pendingExp' = [pendingExp EXCEPT ![id] = NoExpiry]
  /\ asked' = [asked EXCEPT ![id] = Nil]
  /\ calls' = calls
  /\ nCalls' = nCalls + 1
  /\ last' = Returned("deletePendingRequest", Void, 1)

\* -------------------------------------------------------------------- stream

\* IridiumEncoder.encode of ./encoder: an envelope that carries the prompt flag
Encode(message, opts) == <<IF opts.prompt THEN "P" ELSE "N">> \o message

\* IridiumEncoder.decode of ./encoder accepts the payload: it is an envelope
Decodable(payload) == payload # <<>> /\ payload[1] \in {"P", "N"}

\* IridiumEncoder.decode of ./encoder
Decode(payload) == [message |-> Tail(payload), opts |-> [prompt |-> payload[1] = "P"]]

\* the (message, opts) arguments publish is called with
Published == {[message |-> <<"a">>, opts |-> [prompt |-> TRUE]],
              [message |-> <<"a", ":", "b">>, opts |-> [prompt |-> FALSE]]}

\* XREAD from id "0": every entry of the stream is new to the reader
ZeroId(entries) == 0

\* XREAD from id "$": only entries added after the command is executed
DollarId(entries) == Len(entries)

\* the listeners of topic whose XREAD is blocked at the backend, no entry having
\* been added since it blocked
Blocked(topic) ==
  {l \in DOMAIN listeners : /\ listeners[l].topic = topic
                            /\ listeners[l].pc = "blocked"
                            /\ listeners[l].from = Len(stream[topic])}

\* client.connect() resolves: the subscribe handler is registered
Connect ==
  /\ ~connected
  /\ connected' = TRUE
  /\ last' = NoReturn
  /\ UNCHANGED <<stream, listeners, events, nSubs, nCalls, nonStream>>

\* the server emits JSONRPC_EVENTS.subscribe; the handler, if registered, calls
\* streamListener, which issues its XREAD on a connection of its own
Subscribe(topic) ==
  /\ nSubs < MaxSubs
  /\ nSubs' = nSubs + 1
  /\ listeners' = IF connected
                  THEN Append(listeners, [topic |-> topic, pc |-> "issued", from |-> 0,
                                          payload |-> <<>>, entry |-> 0,
                                          issuedAt |-> Len(stream[topic])])
                  ELSE listeners
  /\ last' = NoReturn
  /\ UNCHANGED <<connected, stream, events, nCalls, nonStream>>

\* the backend executes the XREAD of a listener: it blocks for entries after "$"
Listener_block(l) ==
  /\ l \in DOMAIN listeners
  /\ listeners[l].pc = "issued"
  /\ listeners' = [listeners EXCEPT ![l].pc = "blocked",
                                    ![l].from = DollarId(stream[listeners[l].topic])]
  /\ last' = NoReturn
  /\ UNCHANGED <<connected, stream, events, nSubs, nCalls, nonStream>>

\* publish: the body is encoded with {prompt: true} and added to the topic's stream
Publish(topic, message, opts) ==
  /\ nCalls < MaxPub
  /\ LET payload == Encode(message, [prompt |-> TRUE])
     IN  stream' = [stream EXCEPT ![topic] =
                      Append(@, [payload |-> payload, message |-> message, opts |-> opts,
                                 heard |-> Blocked(topic)])]
  /\ nCalls' = nCalls + 1
  /\ last' = Returned("publish", Void, 1)
  /\ UNCHANGED <<connected, listeners, events, nSubs, nonStream>>

\* the XREAD of a listener returns the first entry after its position (COUNT 1);
\* streamListener takes its payload, calls emitWakuMessage unless it is "", and returns
Listener_receive(l) ==
  /\ l \in DOMAIN listeners
  /\ listeners[l].pc = "blocked"
  /\ Len(stream[listeners[l].topic]) > listeners[l].from
  /\ LET k == listeners[l].from + 1
         payload == stream[listeners[l].topic][k].payload
     IN  listeners' = [listeners EXCEPT ![l].pc = IF payload # <<>> THEN "decoding" ELSE "done",
                                       ![l].payload = payload,
                                       ![l].entry = k]
  /\ last' = NoReturn
  /\ UNCHANGED <<connected, stream, events, nSubs, nCalls, nonStream>>

\* emitWakuMessage after `await this.encoder.decode(payload)`: the event is
\* emitted; when decode throws, the promise of emitWakuMessage, which streamListener
\* neither awaits nor catches, rejects with nothing to handle it
Listener_emit(l) ==
  /\ l \in DOMAIN listeners
  /\ listeners[l].pc = "decoding"
  /\ IF Decodable(listeners[l].payload)
     THEN LET decoded == Decode(listeners[l].payload)
          IN  /\ events' = events \cup {[topic |-> listeners[l].topic,
                                          message |-> decoded.message,
                                          prompt |-> decoded.opts.prompt,
                                          entry |-> listeners[l].entry,
                                          listener |-> l]}
              /\ listeners' = [listeners EXCEPT ![l].pc = "done"]
     ELSE /\ events' = events
          /\ listeners' = [listeners EXCEPT ![l].pc = "unhandled"]
  /\ last' = NoReturn
  /\ UNCHANGED <<connected, stream, nSubs, nCalls, nonStream>>

\* payloads of entries that other writers add: the empty string, and none (the
\* entry has no payload field, so there is no envelope to decode)
ForeignPayloads == {<<>>, Undefined}

\* an entry that this service did not publish is added to the topic's stream (any
\* other client of the backend: the listener reads whatever the stream holds)
ForeignXAdd(topic, payload) ==
  /\ nCalls < MaxPub
  /\ stream' = [stream EXCEPT ![topic] =
                  Append(@, [payload |-> payload, message |-> <<>>, opts |-> [prompt |-> FALSE],
                             heard |-> Blocked(topic)])]
  /\ nCalls' = nCalls + 1
  /\ last' = NoReturn
  /\ UNCHANGED <<connected, listeners, events, nSubs, nonStream>>

ForeignStreamOps == \E t \in Topics, p \in ForeignPayloads : ForeignXAdd(t, p)

StreamOps ==
  \/ Connect
  \/ \E t \in Topics : Subscribe(t)
  \/ \E l \in DOMAIN listeners : Listener_block(l)
  \/ \E t \in Topics, p \in Published : Publish(t, p.message, p.opts)
  \/ \E l \in DOMAIN listeners : Listener_receive(l)
  \/ \E l \in DOMAIN listeners : Listener_emit(l)

\* ------------------------------------------------------------ backend failures

\* the public methods of RedisService that issue backend commands
Operations ==
  {"setMessage", "getMessage", "getMessages", "deleteMessage", "setLegacyCached",
   "getLegacyCached", "setNotification", "getNotification", "setPendingRequest",
   "getPendingRequest", "deletePendingRequest", "publish"}

\* the first command of a method fails: the await throws and the method's promise
\* rejects, nothing having been written
Rejects_first(c, op) ==
  /\ Free(c) /\ Budget
  /\ calls' = calls
  /\ nCalls' = nCalls + 1
  /\ last' = Threw(op, 1)
  /\ UNCHANGED <<cacheVars, queueVars, pendingVars, streamVars, compared>>

\* an awaited later command of a method (expire, sRem) fails: the await throws and
\* the method's promise rejects, the earlier commands having taken effect
Rejects_next(c) ==
  /\ calls[c].pc \in {"expire", "sRem"}
  /\ calls' = [calls EXCEPT ![c] = NoCall]
  /\ last' = Threw(calls[c].op, IF calls[c].pc = "expire" THEN 2 ELSE calls[c].cmds + 1)
  /\ UNCHANGED <<cacheVars, queueVars, pendingVars, streamVars, compared, nCalls>>

\* the del of getLegacyCached fails: its promise is neither awaited nor given a
\* handler, so getLegacyCached returns the parsed list all the same
GetLegacyCached_delRejects(c) ==
  /\ calls[c].op = "getLegacyCached" /\ calls[c].pc = "del"
  /\ LET result == calls[c].result
         messages == [i \in 1..Len(result) |-> JsonParse(result[i])]
     IN  last' = [Returned("getLegacyCached", messages, 2) EXCEPT !.failed = TRUE]
  /\ calls' = [calls EXCEPT ![c] = NoCall]
  /\ UNCHANGED <<cacheVars, queueVars, pendingVars, streamVars, compared, nCalls>>

FailOps ==
  \/ \E c \in Callers, op \in Operations : Rejects_first(c, op)
  \/ \E c \in Callers : Rejects_next(c)
  \/ \E c \in Callers : GetLegacyCached_delRejects(c)

\* ---------------------------------------------------------------------- time

\* the backend clock advances one second; keys whose expiry is reached are removed
Tick ==
  /\ now < MaxTime
  /\ now' = now + 1
  /\ msgSet' = [t \in Topics |-> IF Expired(msgExp[t], now') THEN {} ELSE msgSet[t]]
  /\ msgExp' = [t \in Topics |-> IF Expired(msgExp[t], now') THEN NoExpiry ELSE msgExp[t]]
  /\ adds' = [t \in Topics |->
                IF Expired(msgExp[t], now') THEN [b \in Bodies |-> 0] ELSE adds[t]]
  /\ legacy' = [t \in Topics |-> IF Expired(legacyExp[t], now') THEN <<>> ELSE legacy[t]]
  /\ legacyExp' = [t \in Topics |-> IF Expired(legacyExp[t], now') THEN NoExpiry ELSE legacyExp[t]]
  /\ owed' = [t \in Topics |-> IF Expired(legacyExp[t], now') THEN <<>> ELSE owed[t]]
  /\ pending' = [i \in Ids |-> IF Expired(pendingExp[i], now') THEN Nil ELSE pending[i]]
  /\ pendingExp' = [i \in Ids |-> IF Expired(pendingExp[i], now') THEN NoExpiry ELSE pendingExp[i]]
  /\ asked' = [i \in Ids |-> IF Expired(pendingExp[i], now') THEN Nil ELSE asked[i]]
  /\ last' = NoReturn
  /\ UNCHANGED <<notification, notified, calls, nCalls, collide, streamVars, compared>>

\* -------------------------------------------------------------------- specs
InitAny ==
  /\ now = 0
  /\ msgSet = [t \in Topics |-> {}]
  /\ msgExp = [t \in Topics |-> NoExpiry]
  /\ calls = [c \in Callers |-> NoCall]
  /\ nCalls = 0
  /\ last = NoReturn
  /\ adds = [t \in Topics |-> [b \in Bodies |-> 0]]
  /\ legacy = [t \in Topics |-> <<>>]
  /\ legacyExp = [t \in Topics |-> NoExpiry]
  /\ notification = [t \in Topics |-> <<>>]
  /\ owed = [t \in Topics |-> <<>>]
  /\ notified = [t \in Topics |-> <<>>]
  /\ pending = [i \in Ids |-> Nil]
  /\ pendingExp = [i \in Ids |-> NoExpiry]
  /\ asked = [i \in Ids |-> Nil]
  /\ connected = FALSE
  /\ stream = [t \in Topics |-> <<>>]
  /\ listeners = <<>>
  /\ events = {}
  /\ nSubs = 0
  /\ collide \in BOOLEAN
  /\ compared = NoComparison

\* the service as deployed: SHA-256, no two bodies of one hash
Init == InitAny /\ collide = FALSE

CacheOps ==
  \/ \E c \in Callers, t \in Topics, b \in Bodies, ttl \in TTLs : SetMessage_sAdd(c, t, b, ttl)
  \/ \E c \in Callers : SetMessage_expire(c)
  \/ \E c \in Callers, t \in Topics, h \in Hashes : GetMessage(c, t, h)
  \/ \E c \in Callers, t \in Topics : GetMessages(c, t)
  \/ \E c \in Callers, t \in Topics, h \in Hashes : DeleteMessage_scan(c, t, h)
  \/ \E c \in Callers : DeleteMessage_sRem(c)

LegacyOps ==
  \/ \E c \in Callers, m \in Objects : SetLegacyCached_lPush(c, m)
  \/ \E c \in Callers : SetLegacyCached_expire(c)
  \/ \E c \in Callers, t \in Topics : GetLegacyCached_lRange(c, t)
  \/ \E c \in Callers : GetLegacyCached_del(c)

NotificationOps ==
  \/ \E c \in Callers, m \in Objects : SetNotification(c, m)
  \/ \E c \in Callers, t \in Topics : GetNotification(c, t)

QueueOps == LegacyOps \/ NotificationOps

PendingOps ==
  \/ \E c \in Callers, t \in Topics, i \in Ids, b \in Bodies : SetPendingRequest_set(c, t, i, b)
  \/ \E c \in Callers : SetPendingRequest_expire(c)
  \/ \E c \in Callers, i \in Ids : GetPendingRequest(c, i)
  \/ \E c \in Callers, i \in Ids : DeletePendingRequest(c, i)

NextCache == CacheOps \/ Tick

NextQueue == QueueOps

NextLegacy == LegacyOps

NextNotification == NotificationOps

NextPending == PendingOps \/ Tick

NextStream == StreamOps

IdOps == \E ta \in IdParts, sa \in IdParts, tb \in IdParts, sb \in IdParts : IsHigher(ta, sa, tb, sb)

NextIds == IdOps

\* the lists, with entries that are not JSON
NextMalformed == QueueOps \/ ForeignOps

\* the stream, with entries of other writers
NextForeign == StreamOps \/ ForeignStreamOps

\* the legacy list, with commands that fail
NextFail == LegacyOps \/ FailOps

Next == CacheOps \/ QueueOps \/ PendingOps \/ StreamOps \/ IdOps \/ FailOps \/ ForeignOps \/ ForeignStreamOps \/ Tick

Spec == Init /\ [][Next]_vars

\* the message cache alone
SpecCache == Init /\ [][NextCache]_vars

\* the message cache under either digest, for what is claimed of colliding hashes
SpecCollide == InitAny /\ [][NextCache]_vars

\* the legacy and notification lists alone
SpecQueue == Init /\ [][NextQueue]_vars

\* the legacy list alone
SpecLegacy == Init /\ [][NextLegacy]_vars

\* the notification list alone
SpecNotification == Init /\ [][NextNotification]_vars

\* the pending request store alone
SpecPending == Init /\ [][NextPending]_vars

\* the stream publisher and listeners alone
SpecStream == Init /\ [][NextStream]_vars

\* the legacy list on a backend whose commands may fail
SpecFail == Init /\ [][NextFail]_vars

\* the legacy and notification lists holding entries that are not JSON
SpecMalformed == Init /\ [][NextMalformed]_vars

\* the stream id comparator alone
SpecIds == Init /\ [][NextIds]_vars

\* a continuation of some streamListener call that is ready to run
ListenerStep == \E l \in DOMAIN listeners : Listener_receive(l) \/ Listener_emit(l)

\* the same, with what the event loop guarantees: while a continuation is ready,
\* one is run (a listener has two continuations at most, so none is passed over
\* forever)
StreamFairness == WF_vars(ListenerStep)
SpecStreamFair == Init /\ [][NextStream]_vars /\ StreamFairness

\* the stream publisher and listeners, on streams other writers add to as well
SpecForeign == Init /\ [][NextForeign]_vars /\ StreamFairness

\* ------------------------------------------------------------------ claims
AllIdle == \A c \in Callers : calls[c].pc = "idle"

\* the members of message:{topic} whose hash part is hash
WithHash(set, hash) == {m \in set : HashPart(m) = hash}

\* C1 (Dedup): a topic's set never holds two members of one hash, and once
\* setMessage(T,B) has added B twice with B neither expired nor deleted since, the
\* set holds exactly one member whose hash is digest(B).
C1_Dedup ==
  \A t \in Topics, b \in Bodies :
    LET n == Cardinality(WithHash(msgSet[t], sha256(b)))
    IN  /\ n <= 1
        /\ adds[t][b] = 2 => n = 1

\* two setMessage(T,B) calls and one of another body have returned; B is stored once
C1_Witness ==
  \E t \in Topics, b \in Bodies :
    /\ adds[t][b] = 2
    /\ AllIdle /\ last.op = "setMessage"
    /\ Cardinality(msgSet[t]) = 2
    /\ WithHash(msgSet[t], sha256(b)) = {MemberVal(sha256(b), b)}

\* C2 (TTL reset), as claimed: when setMessage(T,M2,ttl2) returns at time t (no
\* deleteMessage having touched T meanwhile), message:{T} holds M2 and what it held
\* before, and expires at t + ttl2.
C2_TTLReset ==
  [][\A c \in Callers :
       (SetMessage_expire(c) /\ ~calls[c].raced) =>
         LET t == calls[c].topic
         IN  /\ MemberVal(calls[c].hash, calls[c].message) \in msgSet'[t]
             /\ msgExp'[t] = now + calls[c].ttl]_vars

\* C9 (body fidelity), as claimed: getMessage(T, digest(B)) returns B for every
\* stored B and undefined when no member has the hash; getMessages(T) returns
\* exactly the stored bodies.
C9_BodyFidelity ==
  [][\A c \in Callers, t \in Topics :
       /\ \A h \in Hashes :
            GetMessage(c, t, h) =>
              /\ \A b \in Bodies :
                   (sha256(b) = h /\ MemberVal(h, b) \in msgSet[t]) => last'.ret = b
              /\ WithHash(msgSet[t], h) = {} => last'.ret = Undefined
       /\ GetMessages(c, t) =>
            last'.ret = SetToBag({b \in Bodies : MemberVal(sha256(b), b) \in msgSet[t]})]_vars

\* C10 (deleteMessage): every command of deleteMessage(T,h) leaves the other
\* topics' sets and the members of message:{T} with another hash unchanged, and
\* when it returns (no setMessage on T since its scan) no member of message:{T}
\* has hash h, so getMessage(T,h) finds nothing.
C10_DeleteMessage ==
  [][\A c \in Callers :
       /\ \A t \in Topics, h \in Hashes :
            DeleteMessage_scan(c, t, h) =>
              /\ msgSet' = msgSet
              /\ calls'[c].pc = "idle" => WithHash(msgSet'[t], h) = {}
       /\ DeleteMessage_sRem(c) =>
            LET t == calls[c].topic
                h == calls[c].hash
            IN  /\ \A u \in Topics \ {t} : msgSet'[u] = msgSet[u]
                /\ msgSet'[t] \ WithHash(msgSet'[t], h) = msgSet[t] \ WithHash(msgSet[t], h)
                /\ (calls'[c].pc = "idle" /\ ~calls[c].raced) =>
                     /\ WithHash(msgSet'[t], h) = {}
                     /\ {m \in msgSet'[t] : Match(m, h)} = {}]_vars

\* deleteMessage(T,h) has returned after a scan and two sRem commands: two members
\* shared h, and neither is left
C10_Witness ==
  /\ collide
  /\ AllIdle
  /\ last.op = "deleteMessage" /\ last.cmds = 3
  /\ \E t \in Topics : msgSet[t] = {} /\ nCalls = 3

\* the bag of the elements of a list
SeqBag(list) ==
  [x \in {list[i] : i \in DOMAIN list} |-> Cardinality({i \in DOMAIN list : list[i] = x})]

\* C3 (legacy drain): getLegacyCached(T) returns every message pushed to T and not
\* yet deleted exactly once (as many times as it was pushed) and leaves legacy:{T}
\* absent, and a getLegacyCached(T) with nothing pushed since reads the empty list.
C3_LegacyDrain ==
  [][\A c \in Callers :
       /\ GetLegacyCached_del(c) =>
            /\ SeqBag(last'.ret) = SeqBag(calls[c].owed)
            /\ legacy'[calls[c].topic] = <<>>
       /\ \A t \in Topics :
            (GetLegacyCached_lRange(c, t) /\ owed[t] = <<>>) => calls'[c].result = <<>>]_vars

\* a, b and c were pushed to one topic and one getLegacyCached returned the three
C3_Witness ==
  /\ last.op = "getLegacyCached" /\ AllIdle
  /\ Len(last.ret) = 3
  /\ {last.ret[i].payload : i \in 1..3} = Payloads
  /\ \E t \in Topics : \A i \in 1..3 : last.ret[i].topic = t /\ legacy[t] = <<>>

\* C4 (notification persistence): getNotification(T) leaves every notification list
\* unchanged and returns every notification pushed so far to T.
C4_NotificationPersistence ==
  [][\A c \in Callers, t \in Topics :
       GetNotification(c, t) =>
         /\ notification' = notification
         /\ SeqBag(last'.ret) = SeqBag(notified[t])
         /\ Len(last'.ret) = Len(notified[t])]_vars

\* two notifications were pushed to a topic; getNotification returned both and the
\* list still holds both
C4_Witness ==
  /\ last.op = "getNotification"
  /\ Len(last.ret) = 2
  /\ \E t \in Topics : Len(notification[t]) = 2 /\ SeqBag(last.ret) = SeqBag(notified[t])

\* C5 (pending round trip): getPendingRequest(i) returns T ":" digest(B) of the
\* setPendingRequest(T,i,B) whose value is stored (not deleted, not expired) and ""
\* otherwise; deletePendingRequest(i) returns normally, also for an absent id, and
\* leaves pending:{i} absent.
C5_PendingRoundTrip ==
  [][\A c \in Callers, i \in Ids :
       /\ GetPendingRequest(c, i) =>
            last'.ret = IF asked[i] = Nil THEN <<>>
                        ELSE asked[i][1] \o <<":">> \o sha256(asked[i][2])
       /\ DeletePendingRequest(c, i) => last'.ret = Void /\ pending'[i] = Nil]_vars

\* getPendingRequest returned the topic and digest of a stored request
C5_Witness ==
  /\ last.op = "getPendingRequest"
  /\ \E i \in Ids :
       /\ asked[i] # Nil /\ pendingExp[i] # NoExpiry
       /\ last.ret = asked[i][1] \o <<":">> \o sha256(asked[i][2])
       /\ last.ret = pending[i]

\* the events emitted for entry k of topic t
EventsOf(t, k) == {e \in events : e.topic = t /\ e.entry = k}

\* the listeners started for topic t
ListenersOf(t) == {l \in DOMAIN listeners : listeners[l].topic = t}

\* C6 (delivery-hint fidelity), as claimed: the prompt value of every emitted event
\* is opts.prompt of the publish call that added the entry.
C6_PromptFidelity ==
  \A e \in events : e.prompt = stream[e.topic][e.entry].opts.prompt

\* C7 (stream round trip): every event is the event of an entry of its own topic
\* that was added while the emitting listener was blocked on the read, and carries
\* that entry's body; with one subscribe event handled for T no entry of T has two
\* events; and every listener that was blocked on T when an entry was added
\* eventually emits the event of that entry (never zero).
C7_StreamRoundTrip ==
  /\ [](\A e \in events :
          LET t == e.topic
              k == e.entry
          IN  /\ k \in DOMAIN stream[t]
              /\ listeners[e.listener].topic = t
              /\ e.listener \in stream[t][k].heard
              /\ e.message = stream[t][k].message
              /\ Cardinality(ListenersOf(t)) = 1 => EventsOf(t, k) = {e})
  /\ <>[](\A t \in Topics : \A k \in DOMAIN stream[t] : \A l \in stream[t][k].heard :
            \E e \in EventsOf(t, k) : e.listener = l)

\* one listener was blocked on T, one entry was published to T, and exactly one
\* event, for T and with the published body, was emitted
C7_Witness ==
  \E t \in Topics :
    /\ Cardinality(ListenersOf(t)) = 1
    /\ Len(stream[t]) = 1 /\ stream[t][1].heard # {}
    /\ Cardinality(events) = 1
    /\ \A e \in events : e.topic = t /\ e.message = stream[t][1].message

\* C8 (continuous delivery), as claimed: after every emission (and after a read that
\* yields nothing to emit) the listener is reading the topic's stream again.
C8_ContinuousDelivery ==
  [][\A l \in DOMAIN listeners :
       (Listener_emit(l) \/ Listener_receive(l)) =>
         listeners'[l].pc \in {"issued", "blocked", "decoding"}]_vars

\* C11 (comparator): a.isHigher(b) is true exactly when a's timestamp is greater
\* than b's or a's sequence is greater than b's.
C11_Comparator ==
  compared.called =>
    compared.higher = (compared.a[1] > compared.b[1] \/ compared.a[2] > compared.b[2])

\* isHigher returned true for an id of the lower timestamp and the higher sequence,
\* both sequences of more than one digit against one digit
C11_Witness ==
  /\ compared.called
  /\ compared.a[1] < compared.b[1] /\ compared.a[2] = 10 /\ compared.b[2] = 9
  /\ compared.higher = TRUE

\* C12 (failures propagate), as claimed: a call one of whose backend commands
\* failed ends with its promise rejected.
C12_FailurePropagates == last.failed => last.rejected

\* the string setPendingRequest stores for a topic and a body
PendingVal(topic, message) == topic \o <<":">> \o sha256(message)

\* C13 (single pending slot): pending:{i} holds nothing or the one value of the most
\* recent setPendingRequest for i (its topic and the digest of its body), whatever
\* was set before and whatever is stored for other ids, and getPendingRequest(i)
\* returns that value or "".
C13_SinglePendingSlot ==
  /\ \A i \in Ids :
       pending[i] = IF asked[i] = Nil THEN Nil ELSE PendingVal(asked[i][1], asked[i][2])
  /\ last.op = "getPendingRequest" =>
       \/ last.ret = <<>>
       \/ \E i \in Ids : asked[i] # Nil /\ last.ret = PendingVal(asked[i][1], asked[i][2])

\* setPendingRequest was called twice for one id with different arguments (the
\* first call has not run its expire yet), and getPendingRequest returned the value
\* of the second
C13_Witness ==
  \E c \in Callers :
    /\ calls[c].op = "setPendingRequest" /\ calls[c].pc = "expire"
    /\ asked[calls[c].id] # Nil
    /\ asked[calls[c].id] # <<calls[c].topic, calls[c].message>>
    /\ PendingVal(calls[c].topic, calls[c].message) # pending[calls[c].id]
    /\ last.op = "getPendingRequest"
    /\ last.ret = pending[calls[c].id]

\* the well-formed entries of a list, parsed
ValidOf(list) ==
  LET valid == SelectSeq(list, IsJson)
  IN  [i \in 1..Len(valid) |-> JsonParse(valid[i])]

\* C14 (malformed-entry tolerance), as claimed: getLegacyCached and getNotification
\* return the parsed well-formed entries of the list and leave out the others.
C14_MalformedSkipped ==
  [][\A c \in Callers :
       /\ GetLegacyCached_del(c) =>
            /\ ~last'.rejected
            /\ Len(last'.ret) = Len(ValidOf(calls[c].result))
            /\ \A i \in 1..Len(last'.ret) : IsJson(calls[c].result[i])
       /\ \A t \in Topics :
            GetNotification(c, t) =>
              /\ ~last'.rejected
              /\ Len(last'.ret) = Len(ValidOf(notification[t]))
              /\ \A i \in 1..Len(last'.ret) : IsJson(notification[t][i])]_vars

\* C15 (decode failure contained), as claimed: when the payload a listener received
\* fails to decode, no event is emitted, the failure is handled, and the listener
\* reads the topic's stream again.
C15_DecodeFailureContained ==
  [][\A l \in DOMAIN listeners :
       (Listener_emit(l) /\ ~Decodable(listeners[l].payload)) =>
         /\ events' = events
         /\ listeners'[l].pc # "unhandled"
         /\ listeners'[l].pc \in {"issued", "blocked"}]_vars

\* the listeners of topic t that are reading or handling what they read
ActiveOf(t) == {l \in ListenersOf(t) : listeners[l].pc \in {"issued", "blocked", "decoding"}}

\* C16 (one subscriber per topic), as claimed: no topic has two active listeners,
\* and no entry is emitted twice.
C16_OneListenerPerTopic ==
  \A t \in Topics :
    /\ Cardinality(ActiveOf(t)) <= 1
    /\ \A k \in DOMAIN stream[t] : Cardinality(EventsOf(t, k)) <= 1

\* the events a listener emitted
EmittedBy(l) == {e \in events : e.listener = l}

\* C17 (new entries only, one per read): the read of a listener yields no entry that
\* was in the stream when the read was issued (nor one added before the backend
\* executed it), a listener emits one event at most, and no event is emitted for an
\* entry whose payload is empty or absent.
C17_NewEntriesOnly ==
  /\ \A l \in DOMAIN listeners :
       /\ listeners[l].pc \in {"decoding", "done", "unhandled"} =>
            /\ listeners[l].entry > listeners[l].issuedAt
            /\ listeners[l].entry > listeners[l].from
       /\ Cardinality(EmittedBy(l)) <= 1
  /\ \A e \in events :
       /\ e.entry > listeners[e.listener].issuedAt
       /\ stream[e.topic][e.entry].payload \notin {<<>>, Undefined}

\* an entry was added to T before the first subscribe event for T and another one
\* while the listener was blocked: the second was emitted and the first was not
C17_Witness ==
  \E t \in Topics :
    /\ Len(stream[t]) = 2
    /\ ListenersOf(t) # {}
    /\ \A l \in ListenersOf(t) : listeners[l].issuedAt = 1
    /\ EventsOf(t, 1) = {}
    /\ EventsOf(t, 2) # {}

\* C18 (no lost legacy message), as claimed: when getLegacyCached(T) deletes the
\* list, every message pushed to T and not deleted before is in the list it returns
\* or still in legacy:{T}.
C18_NoLostLegacy ==
  [][\A c \in Callers :
       GetLegacyCached_del(c) =>
         LET t == calls[c].topic
         IN  /\ Len(owed[t]) <= Len(last'.ret) + Len(legacy'[t])
             /\ \A i \in DOMAIN owed[t] :
                  \/ \E j \in DOMAIN last'.ret : last'.ret[j] = owed[t][i]
                  \/ \E j \in DOMAIN legacy'[t] : legacy'[t][j] = JsonStringify(owed[t][i])]_vars

\* C19 (no immortal key), as claimed: every message set, legacy list and pending
\* value that exists has an expiry.
C19_NoImmortalKey ==
  /\ \A t \in Topics : msgSet[t] # {} => msgExp[t] # NoExpiry
  /\ \A t \in Topics : legacy[t] # <<>> => legacyExp[t] # NoExpiry
  /\ \A i \in Ids : pending[i] # Nil => pendingExp[i] # NoExpiry

\* C20 (no subscribe event dropped), as claimed: a subscribe event raised by the
\* server starts a stream listener for its topic.
C20_NoSubscribeDropped ==
  [][\A t \in Topics :
       Subscribe(t) =>
         /\ Len(listeners') = Len(listeners) + 1
         /\ listeners'[Len(listeners')].topic = t]_vars

====
